---- MODULE Spec2Model ----
(***************************************************************************)
(* A model of rasterioxyz.tile.Tiles: construction and validation, the     *)
(* read-only guard, equality, the zoom planner, the lazy tile generator,   *)
(* the tile builder and write().                                           *)
(*                                                                         *)
(* Map coordinates are exact integers in a unit chosen so that the tile    *)
(* edge at the deepest modelled zoom is two units: every division the      *)
(* planner performs is then exact, as it is in binary floating point for   *)
(* powers of two.  Pixel buffers are abstracted to their sample type,      *)
(* shape, the coverage of their alpha channel, the sample values of each    *)
(* non-alpha channel where the tile is covered (samples) and the value of   *)
(* every channel where it is not (fill).  Diagnostics delivered through the *)
(* warnings module are not part of the state.                               *)
(***************************************************************************)
EXTENDS Integers, Sequences, FiniteSets, TLC

VARIABLES
    self,      \* <<>> before/without an instance, else <<slots>> of the Tiles object
    gen,       \* internal state of the generator object bound to self.tiles
    emitted,   \* history: the tiles the generator has yielded, in order
    disk,      \* the file system: directories and image files
    last,      \* the last operation, its arguments and its outcome
    other,     \* a second object, for comparisons
    zoomProps, \* the _Zoom last returned by a direct call of _build_zoom
    nonfinite  \* what this build's cast of a NaN or infinity to uint8 yields

vars == <<self, gen, emitted, disk, last, other, zoomProps, nonfinite>>

-----------------------------------------------------------------------------
(* Bounds of the model *)

MaxZoom == 2      \* deepest zoom level that is planned
MaxZooms == 2     \* longest zooms argument
Margin == 4       \* how far image bounds may lie outside the Mercator extent

(* Program constants *)

MinValidZoom == 0
MaxValidZoom == 25
SmallPixels == 256
LargePixels == 512
MaxTileBands == 3
AlphaOpaque == 255
ScaleTop == 255      \* (255 - 0) in the rescaler
Uint8Size == 256     \* number of values of numpy.uint8
FillValue == 0       \* what a boundless read puts where the source has no data

\* Tiles._origin, in model units
Origin == 2 ^ MaxZoom

valid_resampling ==
    [n \in {"nearest", "bilinear", "cubic", "cubic_spline", "lanczos", "average",
            "mode", "gauss", "max", "min", "med", "q1", "q3", "sum", "rms"} |->
        CASE n = "nearest" -> 0 [] n = "bilinear" -> 1 [] n = "cubic" -> 2
          [] n = "cubic_spline" -> 3 [] n = "lanczos" -> 4 [] n = "average" -> 5
          [] n = "mode" -> 6 [] n = "gauss" -> 7 [] n = "max" -> 8 [] n = "min" -> 9
          [] n = "med" -> 10 [] n = "q1" -> 11 [] n = "q3" -> 12 [] n = "sum" -> 13
          [] n = "rms" -> 14]

Slots == {"img", "zooms", "pixels", "resampling", "_img_dtype", "_img_is_3857",
          "_img_properties", "_tile_bands", "_img_max", "_img_min", "tiles"}

\* names hasattr() finds on the class itself
ClassAttrs == {"_valid_resampling", "_origin", "write"}

-----------------------------------------------------------------------------
(* Small helpers *)

Abs(x) == IF x < 0 THEN -x ELSE x
Min2(a, b) == IF a <= b THEN a ELSE b
Max2(a, b) == IF a >= b THEN a ELSE b
SeqRange(s) == {s[i] : i \in 1..Len(s)}

\* range(a, b) as a sequence
PyRange(a, b) == [i \in 1..Max2(0, b - a) |-> a + i - 1]

\* a product whose first factor varies fastest
ProductRowMajor(xs, ys) ==
    [i \in 1..(Len(xs) * Len(ys)) |->
        <<xs[((i - 1) % Len(xs)) + 1], ys[((i - 1) \div Len(xs)) + 1]>>]

\* itertools.product(xs, ys): the last factor varies fastest
Product(xs, ys) ==
    [i \in 1..(Len(xs) * Len(ys)) |->
        <<xs[((i - 1) \div Len(ys)) + 1], ys[((i - 1) % Len(ys)) + 1]>>]

\* x ** .5 for a perfect square
Sqrt(x) == CHOOSE n \in 0..x : n * n = x

_Bounds(minx, miny, maxx, maxy) == [minx |-> minx, miny |-> miny, maxx |-> maxx, maxy |-> maxy]

-----------------------------------------------------------------------------
(* The unbound-slot object and attribute assignment *)

NoSlots == [n \in Slots |-> <<>>]

hasattr(obj, name) == name \in ClassAttrs \/ (name \in Slots /\ obj[name] # <<>>)

\* Tiles.__setattr__: [obj, err]
setattr(obj, name, value) ==
    IF hasattr(obj, name) THEN [obj |-> obj, err |-> "AttributeError"]
    ELSE IF name \in Slots THEN [obj |-> [obj EXCEPT ![name] = <<value>>], err |-> "none"]
    ELSE [obj |-> obj, err |-> "AttributeError"]

\* a chain of assignments in __init__; none of them can fail on a fresh object
Assign(obj, name, value) == setattr(obj, name, value).obj

Get(obj, name) == obj[name][1]

-----------------------------------------------------------------------------
(* Tiles._build_zoom *)

tile_dims_of(zoom) ==
    LET zoom_ntiles == 4 ^ zoom
        zoom_dims == Sqrt(zoom_ntiles)
    IN  (Origin * 2) \div zoom_dims

_build_zoom(obj, zoom) ==
    LET tile_dims == tile_dims_of(zoom)
        b == Get(obj, "_img_properties").bounds
        start_col == (b.minx - (-Origin)) \div tile_dims
        end_col == (b.maxx - (-Origin)) \div tile_dims
        start_row == Abs(b.maxy - Origin) \div tile_dims
        end_row == Abs(b.miny - Origin) \div tile_dims
        tile_indices == Product(PyRange(start_col, end_col + 1),
                                PyRange(start_row, end_row + 1))
    IN  [zoom |-> zoom, tile_dims |-> tile_dims, tile_indices |-> tile_indices]

-----------------------------------------------------------------------------
(* Tiles._build_tile and the two extraction branches *)

\* positive-area overlap of two bounds
Overlaps(a, b) ==
    /\ Max2(a.minx, b.minx) < Min2(a.maxx, b.maxx)
    /\ Max2(a.miny, b.miny) < Min2(a.maxy, b.maxy)

Within(a, b) ==
    /\ b.minx <= a.minx /\ a.maxx <= b.maxx
    /\ b.miny <= a.miny /\ a.maxy <= b.maxy

\* coverage of the tile by valid source pixels, as the read/warp collaborator
\* reports it: "none" (every pixel masked), "partial" or "full"
Coverage(obj, bounds) ==
    LET img == Get(obj, "img")
        ib == Get(obj, "_img_properties").bounds
    IN  IF img.masked \/ ~Overlaps(bounds, ib) THEN "none"
        ELSE IF Within(bounds, ib) THEN "full"
        ELSE "partial"

\* the sample values the read/warp collaborator delivers in each of the first
\* _tile_bands channels where the tile is covered: those of the band's valid
\* pixels.  Where the tile is not covered every channel holds FillValue.
Samples(obj) == SubSeq(Get(obj, "img").pixels, 1, Get(obj, "_tile_bands"))

\* warp.reproject into zeros((bands + 1, pixels, pixels), dtype=_img_dtype)
_reproject_tile_data(obj, bounds) ==
    [dtype |-> Get(obj, "_img_dtype"),
     channels |-> Get(obj, "_tile_bands") + 1,
     height |-> Get(obj, "pixels"),
     width |-> Get(obj, "pixels"),
     alpha |-> Coverage(obj, bounds),
     alpha_band |-> Get(obj, "_tile_bands") + 1,     \* dst_alpha
     samples |-> Samples(obj),
     fill |-> FillValue,
     nan |-> FALSE,
     rescaled |-> FALSE]

\* img.read(out_shape=(bands, pixels, pixels), masked, boundless), alpha appended
_read_tile_data(obj, bounds) ==
    LET tile_array == [dtype |-> Get(obj, "img").dtypes[1],
                       channels |-> Get(obj, "_tile_bands"),
                       height |-> Get(obj, "pixels"),
                       width |-> Get(obj, "pixels")]
        tile_alpha == [dtype |-> Get(obj, "_img_dtype"), channels |-> 1,
                       alpha |-> Coverage(obj, bounds)]
    IN  [dtype |-> tile_array.dtype,
         channels |-> tile_array.channels + tile_alpha.channels,
         height |-> tile_array.height,
         width |-> tile_array.width,
         alpha |-> tile_alpha.alpha,
         alpha_band |-> tile_array.channels + 1,     \* appended on axis 0
         samples |-> Samples(obj),
         fill |-> FillValue,
         nan |-> FALSE,
         rescaled |-> FALSE]

\* a rescaler that leaves out the cast
RescaleWithoutCast(obj, tile_array) == [tile_array EXCEPT !.rescaled = TRUE]

\* the quotient of n by d > 0 with the fraction cut off, as a C cast does
Trunc(n, d) == IF n >= 0 THEN n \div d ELSE -((-n) \div d)

\* one sample through ((v - _img_min) / (_img_max - _img_min)) * (255 - 0) + 0,
\* stored back into the buffer and cast by astype(uint8): a zero divisor gives
\* NaN or an infinity, whose cast is whatever the build makes of it
Scale(obj, v) ==
    LET num == (v - Get(obj, "_img_min")) * ScaleTop
        den == Get(obj, "_img_max") - Get(obj, "_img_min")
    IN  IF den = 0 THEN nonfinite
        ELSE Trunc(num, den) % Uint8Size

RECURSIVE ScaleSamples(_, _)
\* the samples of one channel, each through Scale
ScaleSamples(obj, values) ==
    IF values = <<>> THEN <<>>
    ELSE <<Scale(obj, Head(values))>> \o ScaleSamples(obj, Tail(values))

RECURSIVE ScaleChannels(_, _)
\* tile_array[:-1], channel by channel
ScaleChannels(obj, channels) ==
    IF channels = <<>> THEN <<>>
    ELSE <<ScaleSamples(obj, Head(channels))>> \o ScaleChannels(obj, Tail(channels))

\* Tiles._array_to_uint8: rescale all but the last channel, cast to uint8
_array_to_uint8(obj, tile_array) ==
    [tile_array EXCEPT
        !.samples = ScaleChannels(obj, tile_array.samples),
        !.fill = Scale(obj, tile_array.fill),
        !.nan = (Get(obj, "_img_max") = Get(obj, "_img_min")),
        !.dtype = "uint8",
        !.rescaled = TRUE]

_build_tile(obj, zoom, col, row, dims) ==
    LET minx == Origin * (-1) + col * dims
        maxx == minx + dims
        maxy == Origin - row * dims
        miny == maxy - dims
        bounds == _Bounds(minx, miny, maxx, maxy)
        tile_data == IF Get(obj, "_img_is_3857")
                     THEN _read_tile_data(obj, bounds)
                     ELSE _reproject_tile_data(obj, bounds)
        data == IF tile_data.dtype # "uint8"
                THEN _array_to_uint8(obj, tile_data)
                ELSE tile_data
    IN  [zoom |-> zoom, column |-> col, row |-> row, bounds |-> bounds, data |-> data]

-----------------------------------------------------------------------------
(* Tiles._tile: the generator.  Its frame holds the position in self.zooms  *)
(* (zi, 0 before the first zoom), the tile edge of the current zoom and the *)
(* unconsumed rest of the current zoom's tile_indices.                      *)

NewGenerator == [zi |-> 0, dims |-> 0, rest |-> <<>>, done |-> FALSE]

ZoomAt(obj, i) == Get(obj, "zooms").items[i].v

RECURSIVE _tile(_, _)
\* one next() on the generator: [gen, out], out = <<tile>> or <<>> on StopIteration
_tile(obj, g) ==
    IF g.done THEN [gen |-> g, out |-> <<>>]
    ELSE IF g.rest # <<>>
    THEN LET idx == Head(g.rest)
             tile == _build_tile(obj, ZoomAt(obj, g.zi), idx[1], idx[2], g.dims)
         IN  [gen |-> [g EXCEPT !.rest = Tail(g.rest)], out |-> <<tile>>]
    ELSE IF g.zi >= Len(Get(obj, "zooms").items)
    THEN [gen |-> [g EXCEPT !.done = TRUE], out |-> <<>>]
    ELSE LET zoom_properties == _build_zoom(obj, ZoomAt(obj, g.zi + 1))
         IN  _tile(obj, [g EXCEPT !.zi = g.zi + 1,
                                  !.dims = zoom_properties.tile_dims,
                                  !.rest = zoom_properties.tile_indices])

-----------------------------------------------------------------------------
(* Tiles._get_mercator_properties, Tiles._get_image_statistics, __init__ *)

_ImageProperties(bounds) == [bounds |-> bounds]

_get_mercator_properties(obj) ==
    LET img == Get(obj, "img")
    IN  IF Get(obj, "_img_is_3857")
        THEN _ImageProperties(_Bounds(img.bounds.minx, img.bounds.miny,
                                      img.bounds.maxx, img.bounds.maxy))
        ELSE LET t == img.default_transform   \* warp.calculate_default_transform
                 minx == t.c
                 maxx == minx + t.a * t.width
                 maxy == t.f
                 miny == maxy + t.e * t.height
             IN  _ImageProperties(_Bounds(minx, miny, maxx, maxy))

SeqMax(s) == CHOOSE m \in SeqRange(s) : \A x \in SeqRange(s) : x <= m
SeqMin(s) == CHOOSE m \in SeqRange(s) : \A x \in SeqRange(s) : m <= x

\* <<img_max, img_min>>
_get_image_statistics(obj) ==
    LET band_statistics == [band \in 1..Get(obj, "_tile_bands") |->
                                Get(obj, "img").statistics[band]]
        img_max == SeqMax([i \in DOMAIN band_statistics |-> band_statistics[i].max])
        img_min == SeqMin([i \in DOMAIN band_statistics |-> band_statistics[i].min])
    IN  <<img_max, img_min>>

IsSequence(zooms) == zooms.kind \in {"list", "tuple", "str"}

\* all(isinstance(zoom, int) for zoom in zooms)
AllZoomsInt(zooms) == \A i \in 1..Len(zooms.items) : zooms.items[i].t = "int"

\* a constructor that forgets the lower limit of the zoom range
AllZoomsInRangeNoFloor(zooms) ==
    \A i \in 1..Len(zooms.items) : zooms.items[i].v <= MaxValidZoom

\* all(zoom <= 25 and zoom >= 0 for zoom in zooms)
AllZoomsInRange(zooms) ==
    \A i \in 1..Len(zooms.items) :
        zooms.items[i].v <= MaxValidZoom /\ zooms.items[i].v >= MinValidZoom

\* Tiles.__init__: [obj, err]; obj = <<>> when the constructor raises
__init__(image, zooms, pixels, resampling) ==
    LET Raise(e) == [obj |-> <<>>, err |-> e]
    IN
    IF image.kind # "DatasetReader" THEN Raise("TypeError")
    ELSE IF image.crs = 0 THEN Raise("CRSError")
    ELSE IF ~IsSequence(zooms) THEN Raise("TypeError")
    ELSE IF ~AllZoomsInt(zooms) THEN Raise("TypeError")
    ELSE IF ~AllZoomsInRange(zooms) THEN Raise("ValueError")
    ELSE IF pixels.t # "int" THEN Raise("TypeError")
    ELSE IF pixels.v \notin {SmallPixels, LargePixels} THEN Raise("ValueError")
    ELSE IF resampling.t # "str" THEN Raise("TypeError")
    ELSE IF resampling.v \notin DOMAIN valid_resampling THEN Raise("ValueError")
    ELSE
    LET o1 == Assign(NoSlots, "img", image)
        o2 == Assign(o1, "zooms", zooms)
        o3 == Assign(o2, "pixels", pixels.v)
        o4 == Assign(o3, "resampling", valid_resampling[resampling.v])
        o5 == Assign(o4, "_img_is_3857", image.crs = 3857)
        o6 == Assign(o5, "_img_properties", _get_mercator_properties(o5))
        o7 == Assign(o6, "_tile_bands",
                     IF image.count <= MaxTileBands THEN image.count ELSE MaxTileBands)
        o8 == Assign(o7, "_img_dtype", image.dtypes[1])
        st == _get_image_statistics(o8)
        o9 == IF Get(o8, "_img_dtype") # "uint8"
              THEN Assign(Assign(o8, "_img_max", st[1]), "_img_min", st[2])
              ELSE o8
        o10 == Assign(o9, "tiles", "generator")
    IN  [obj |-> <<o10>>, err |-> "none"]

-----------------------------------------------------------------------------
(* Tiles.write *)

Upper(name) ==
    CASE name = "png" -> "PNG"
      [] name = "jpeg" -> "JPEG"
      [] name = "tif" -> "TIF"
      [] OTHER -> name

\* pathlib: a path is a root directory name and the components joined to it
Path(root) == [root |-> root, parts |-> <<>>]
joinpath(path, a, b) == [path EXCEPT !.parts = path.parts \o <<a, b>>]
Parent(path) == [path EXCEPT !.parts = SubSeq(path.parts, 1, Len(path.parts) - 1)]
exists(d, path) == path \in d.dirs \/ path \in d.plain
is_dir(d, path) == path \in d.dirs

\* Path.mkdir(parents=True, exist_ok=True)
mkdir(d, path) ==
    [d EXCEPT !.dirs = @ \cup {[path EXCEPT !.parts = SubSeq(path.parts, 1, n)] :
                                  n \in 0..Len(path.parts)}]

\* the smallest alpha value instead of the mean
AlphaMin(data) == IF data.alpha = "full" THEN AlphaOpaque ELSE 0

\* tile.data[-1].mean()
AlphaMean(data) ==
    CASE data.alpha = "none" -> 0
      [] data.alpha = "full" -> AlphaOpaque
      [] OTHER -> AlphaOpaque \div 2

\* band counts the image encoder behind rasterio.open(..., "w") takes
EncoderAccepts(driver, count) ==
    IF Upper(driver) = "JPEG" THEN count \in {1, 3, 4} ELSE count \in 1..4

RECURSIVE WriteLoop(_, _, _, _, _, _)
\* for tile in self.tiles: ...   [gen, disk, emitted, err]
WriteLoop(obj, g, d, em, out_dir, driver) ==
    LET r == _tile(obj, g)
    IN  IF r.out = <<>> THEN [gen |-> r.gen, disk |-> d, emitted |-> em, err |-> "none"]
        ELSE
        LET tile == r.out[1]
            img_dir == joinpath(out_dir, tile.zoom, tile.column)
            d1 == mkdir(d, img_dir)
            img_path == [dir |-> img_dir, row |-> tile.row, ext |-> driver]
            em1 == Append(em, tile)
        IN  IF AlphaMean(tile.data) = 0
            THEN WriteLoop(obj, r.gen, d1, em1, out_dir, driver)
            ELSE IF ~EncoderAccepts(driver, tile.data.channels)
            THEN [gen |-> r.gen, disk |-> d1, emitted |-> em1, err |-> "RasterioIOError"]
            ELSE LET file == [path |-> img_path,
                              driver |-> driver,
                              width |-> Get(obj, "pixels"),
                              height |-> Get(obj, "pixels"),
                              count |-> tile.data.channels,
                              dtype |-> "uint8"]
                     d2 == [d1 EXCEPT !.files = @ \cup {file}]
                 IN  WriteLoop(obj, r.gen, d2, em1, out_dir, driver)

\* Tiles.write(directory, driver): [gen, disk, emitted, err]
write(obj, g, d, em, directory, driver) ==
    LET Raise(e) == [gen |-> g, disk |-> d, emitted |-> em, err |-> e]
        out_dir == Path(directory)
    IN  IF driver.t \notin {"str", "Path"} THEN Raise("TypeError")
        ELSE IF driver.t # "str" THEN Raise("AttributeError")   \* Path has no upper()
        ELSE IF Upper(driver.v) \notin {"PNG", "JPEG"} THEN Raise("ValueError")
        ELSE IF ~exists(d, out_dir) \/ ~is_dir(d, out_dir) THEN Raise("FileNotFoundError")
        ELSE WriteLoop(obj, g, d, em, out_dir, driver.v)

-----------------------------------------------------------------------------
(* Inputs *)

\* an open rasterio dataset; b is its footprint in EPSG:3857.  A dataset in
\* another CRS has native bounds in other units, and default_transform is what
\* warp.calculate_default_transform answers for it.
Dataset(crs, dtype, count, b, masked) ==
    [kind |-> "DatasetReader",
     crs |-> crs,
     count |-> count,
     dtypes |-> [i \in 1..count |-> dtype],
     bounds |-> IF crs = 3857 THEN b
                ELSE _Bounds(b.minx + 100, b.miny + 100, b.maxx + 100, b.maxy + 100),
     default_transform |-> [a |-> 1, c |-> b.minx, e |-> -1, f |-> b.maxy,
                            width |-> b.maxx - b.minx, height |-> b.maxy - b.miny],
     masked |-> masked,
     pixels |-> SubSeq(<<<<0, 1, 2>>, <<1, 2, 3>>, <<2, 3, 4>>, <<3, 4, 5>>>>, 1, count),
     statistics |-> [i \in 1..count |-> [min |-> i - 1, max |-> i + 1]]]   \* of pixels[i]

\* the same dataset with one value in every valid pixel of every band
Flat(d) ==
    [d EXCEPT !.pixels = SubSeq(<<<<1, 1>>, <<1, 1>>, <<1, 1>>, <<1, 1>>>>, 1, d.count),
              !.statistics = [i \in DOMAIN @ |-> [min |-> 1, max |-> 1]]]

NotADataset == [kind |-> "NoneType"]

Inner == _Bounds(-1, -1, 1, 1)
Aligned == _Bounds(0, 0, 2, 2)
East == _Bounds(Origin + 1, -1, Origin + Margin, 1)
North == _Bounds(0, Origin + 1, 2, Origin + Margin)

Images ==
    {Dataset(3857, "uint8", 3, b, FALSE) : b \in {Inner, Aligned, East, North}}
    \cup {Dataset(4326, "uint8", 3, Inner, FALSE),
          Dataset(3857, "uint16", 1, Inner, FALSE),
          Dataset(4326, "float32", 4, Aligned, FALSE),
          Dataset(3857, "uint8", 1, Aligned, FALSE),
          Dataset(3857, "uint8", 3, Aligned, TRUE)}

ImageArgs == Images \cup {NotADataset, Dataset(0, "uint8", 3, Inner, FALSE)}

IntItem(v) == [t |-> "int", v |-> v]
ZoomList(kind, levels) == [kind |-> kind, items |-> [i \in DOMAIN levels |-> IntItem(levels[i])]]
LevelSeqs == UNION {[1..k -> 0..MaxZoom] : k \in 0..MaxZooms}

ValidZoomArgs == {ZoomList("list", q) : q \in LevelSeqs} \cup {ZoomList("tuple", <<0>>)}

ZoomArgs ==
    ValidZoomArgs
    \cup {[kind |-> "int", items |-> <<>>],
          [kind |-> "str", items |-> <<[t |-> "str", v |-> 0]>>],
          [kind |-> "list", items |-> <<IntItem(0), [t |-> "str", v |-> 0]>>],
          [kind |-> "list", items |-> <<IntItem(0), [t |-> "float", v |-> 1]>>],
          ZoomList("list", <<MaxValidZoom + 1>>),
          ZoomList("list", <<0, MinValidZoom - 1>>)}

PixelArgs == {[t |-> "int", v |-> SmallPixels], [t |-> "int", v |-> LargePixels],
              [t |-> "int", v |-> 1000], [t |-> "str", v |-> SmallPixels],
              [t |-> "float", v |-> SmallPixels]}

ResamplingArgs == {[t |-> "str", v |-> "nearest"], [t |-> "str", v |-> "bilinear"],
                   [t |-> "str", v |-> "any"], [t |-> "list", v |-> "nearest"]}

Arg(t, v) == [t |-> t, v |-> v]

\* every combination of constructor arguments
ConstructorArgs == ImageArgs \X ZoomArgs \X PixelArgs \X ResamplingArgs

\* the instances the pipeline is run on: every footprint with every valid zooms
\* argument, and each other image, pixel size and resampling method with a few
PipelineArgs ==
    LET footprints == {Dataset(3857, "uint8", 3, b, FALSE) : b \in {Inner, Aligned, East, North}}
        few == {ZoomList("list", <<MaxZoom>>), ZoomList("list", <<0, MaxZoom>>)}
    IN  (footprints \X ValidZoomArgs \X {Arg("int", SmallPixels)} \X {Arg("str", "nearest")})
        \cup ((Images \ footprints) \X few \X {Arg("int", SmallPixels)}
              \X {Arg("str", "nearest")})
        \cup ({Dataset(3857, "uint16", 1, Inner, FALSE)} \X few
              \X {Arg("int", LargePixels)} \X {Arg("str", "bilinear")})

\* <<directory, driver>>
WriteArgs ==
    ({"out"} \X {Arg("str", "PNG"), Arg("str", "JPEG"), Arg("str", "png"),
                 Arg("str", "TIF"), Arg("int", "0"), Arg("Path", "PNG")})
    \cup ({"missing", "afile"} \X {Arg("str", "PNG"), Arg("int", "0")})

AttrNames == Slots \cup ClassAttrs \cup {"new_attr"}

NoZoom == [zoom |-> -1, tile_dims |-> 0, tile_indices |-> <<>>]

-----------------------------------------------------------------------------
(* The pipeline: one instance, its generator and the output directory *)

Init ==
    /\ self = <<>>
    /\ gen = NewGenerator
    /\ emitted = <<>>
    /\ disk = [dirs |-> {Path("out")}, plain |-> {Path("afile")}, files |-> {}]
    /\ last = [op |-> "start", err |-> "none"]
    /\ other = <<>>
    /\ zoomProps = NoZoom
    /\ nonfinite = 0

\* tiles = Tiles(image, zooms, pixels, resampling), the arguments drawn from args
ConstructFrom(args) ==
    /\ last.op = "start"
    /\ \E a \in args :
        LET r == __init__(a[1], a[2], a[3], a[4])
        IN  /\ self' = r.obj
            /\ gen' = NewGenerator
            /\ last' = [op |-> "init", err |-> r.err, image |-> a[1], zooms |-> a[2],
                        pixels |-> a[3], resampling |-> a[4]]
    /\ UNCHANGED <<emitted, disk, other, zoomProps, nonfinite>>

Construct == ConstructFrom(PipelineArgs)

\* a pull on a stream that starts over once it is exhausted
PullRewinding ==
    /\ self # <<>>
    /\ LET r == _tile(self[1], IF gen.done THEN NewGenerator ELSE gen)
       IN  /\ gen' = r.gen
           /\ emitted' = emitted \o r.out
           /\ last' = [op |-> "next",
                       err |-> IF r.out = <<>> THEN "StopIteration" ELSE "none"]
    /\ UNCHANGED <<self, disk, other, zoomProps, nonfinite>>

\* next(tiles.tiles)
Pull ==
    /\ self # <<>>
    /\ LET r == _tile(self[1], gen)
       IN  /\ gen' = r.gen
           /\ emitted' = emitted \o r.out
           /\ last' = [op |-> "next",
                       err |-> IF r.out = <<>> THEN "StopIteration" ELSE "none"]
    /\ UNCHANGED <<self, disk, other, zoomProps, nonfinite>>

\* tiles.write(directory, driver)
Write ==
    /\ self # <<>>
    /\ \E a \in WriteArgs :
        LET r == write(self[1], gen, disk, emitted, a[1], a[2])
        IN  /\ gen' = r.gen
            /\ disk' = r.disk
            /\ emitted' = r.emitted
            /\ last' = [op |-> "write", err |-> r.err, directory |-> a[1],
                        driver |-> a[2], start |-> Len(emitted)]
    /\ UNCHANGED <<self, other, zoomProps, nonfinite>>

Next == Construct \/ Pull \/ Write

Spec == Init /\ [][Next]_vars

-----------------------------------------------------------------------------
(* Construction alone, over every combination of arguments *)

ConstructAny == ConstructFrom(ConstructorArgs)

NextInit == ConstructAny

SpecInit == Init /\ [][NextInit]_vars

-----------------------------------------------------------------------------
(* Attribute assignment on a constructed instance *)

\* tiles.<name> = 512
SetAttr ==
    /\ self # <<>>
    /\ \E name \in AttrNames :
        LET r == setattr(self[1], name, 512)
        IN  /\ self' = <<r.obj>>
            /\ last' = [op |-> "setattr", err |-> r.err, name |-> name]
    /\ UNCHANGED <<gen, emitted, disk, other, zoomProps, nonfinite>>

NextAttr == Construct \/ SetAttr \/ Pull

SpecAttr == Init /\ [][NextAttr]_vars

-----------------------------------------------------------------------------
(* C1 *)

\* what is wrong with the arguments of a construction, each with the error the
\* constructor is to raise for it
Faults(image, zooms, pixels, resampling) ==
    (IF image.kind # "DatasetReader" THEN {"TypeError"} ELSE {})
    \cup (IF image.kind = "DatasetReader" /\ image.crs = 0 THEN {"CRSError"} ELSE {})
    \cup (IF zooms.kind \notin {"list", "tuple", "str"} THEN {"TypeError"} ELSE {})
    \cup (IF \E i \in 1..Len(zooms.items) : zooms.items[i].t # "int"
          THEN {"TypeError"} ELSE {})
    \cup (IF \E i \in 1..Len(zooms.items) :
               zooms.items[i].t = "int" /\ zooms.items[i].v \notin 0..25
          THEN {"ValueError"} ELSE {})
    \cup (IF pixels.t # "int" THEN {"TypeError"} ELSE {})
    \cup (IF pixels.t = "int" /\ pixels.v \notin {256, 512} THEN {"ValueError"} ELSE {})
    \cup (IF resampling.t # "str" THEN {"TypeError"} ELSE {})
    \cup (IF resampling.t = "str" /\ resampling.v \notin DOMAIN valid_resampling
          THEN {"ValueError"} ELSE {})

LastFaults == Faults(last.image, last.zooms, last.pixels, last.resampling)

\* C1: a construction with any invalid argument raises one of the errors its
\* invalid arguments call for (the one error, when one argument is invalid) and
\* leaves no instance, no tile stream and nothing planned; a construction with
\* valid arguments succeeds and binds a fresh, unstarted tile stream.
C1_ConstructionValidates ==
    last.op = "init" =>
        /\ Cardinality(DOMAIN valid_resampling) = 15
        /\ LastFaults # {} =>
              /\ last.err \in LastFaults
              /\ self = <<>>
              /\ gen = NewGenerator /\ emitted = <<>> /\ zoomProps = NoZoom
        /\ LastFaults = {} =>
              /\ last.err = "none"
              /\ self # <<>>
              /\ self[1]["tiles"] = <<"generator">>
              /\ gen = NewGenerator /\ emitted = <<>>

\* a construction rejected for a zoom level below 0, every other argument valid
C1_Witness ==
    /\ last.op = "init"
    /\ last.err = "ValueError"
    /\ LastFaults = {"ValueError"}
    /\ last.pixels.v = 256
    /\ \E i \in 1..Len(last.zooms.items) : last.zooms.items[i].v < 0
    /\ self = <<>>

-----------------------------------------------------------------------------
(* C2 *)

\* C2: on a constructed instance every attribute assignment raises
\* AttributeError and leaves the instance as it was.
C2_AssignmentRejected ==
    [][last'.op = "setattr" => (last'.err = "AttributeError" /\ self' = self)]_vars

\* the same for the names that are bound on every instance or are no slot at all
C2_BoundNamesRejected ==
    [][(last'.op = "setattr" /\ last'.name \notin {"_img_max", "_img_min"})
        => (last'.err = "AttributeError" /\ self' = self)]_vars

\* an assignment to _img_max went through on an instance built from an 8-bit source
C2_Assigned ==
    /\ last.op = "setattr"
    /\ last.name = "_img_max"
    /\ last.err = "none"
    /\ self[1]["_img_dtype"] = <<"uint8">>
    /\ self[1]["_img_max"] = <<512>>

-----------------------------------------------------------------------------
(* Equality: a Tiles instance, a second object and their comparison *)

\* DatasetReader.profile: the dataset's metadata, not its pixels
profile(img) ==
    [driver |-> "GTiff", dtype |-> img.dtypes[1], count |-> img.count, crs |-> img.crs,
     transform |-> [c |-> img.bounds.minx, f |-> img.bounds.maxy],
     width |-> img.bounds.maxx - img.bounds.minx,
     height |-> img.bounds.maxy - img.bounds.miny]

TilesObject(obj, g) == [cls |-> "Tiles", obj |-> obj, gen |-> g]
IntObject == [cls |-> "int", obj |-> NoSlots, gen |-> NewGenerator]

\* an __eq__ that leaves the pixel size out of the comparison
EqIgnoringPixels(obj, o) ==
    IF o.cls # "Tiles" THEN FALSE
    ELSE /\ profile(Get(obj, "img")) = profile(Get(o.obj, "img"))
         /\ Get(obj, "zooms") = Get(o.obj, "zooms")
         /\ Get(obj, "resampling") = Get(o.obj, "resampling")

\* Tiles.__eq__(self, other)
__eq__(obj, o) ==
    IF o.cls # "Tiles" THEN FALSE
    ELSE LET dataset_eq == profile(Get(obj, "img")) = profile(Get(o.obj, "img"))
             zooms_eq == Get(obj, "zooms") = Get(o.obj, "zooms")
             pixels_eq == Get(obj, "pixels") = Get(o.obj, "pixels")
             resampling_eq == Get(obj, "resampling") = Get(o.obj, "resampling")
         IN  IF dataset_eq /\ zooms_eq /\ pixels_eq /\ resampling_eq THEN TRUE ELSE FALSE

\* a footprint inside one tile of every modelled zoom
OneTile == _Bounds(0, 1, 1, 2)

EqArgs ==
    {Dataset(3857, "uint8", 3, OneTile, FALSE), Dataset(3857, "uint8", 3, OneTile, TRUE),
     Dataset(3857, "uint16", 3, OneTile, FALSE)}
    \X {ZoomList("list", <<0>>), ZoomList("tuple", <<0>>), ZoomList("list", <<0, 1>>),
        ZoomList("list", <<1, 0>>)}
    \X {Arg("int", SmallPixels), Arg("int", LargePixels)}
    \X {Arg("str", "nearest"), Arg("str", "bilinear")}

Instance(a) == __init__(a[1], a[2], a[3], a[4]).obj[1]

InitEq ==
    /\ \E a \in EqArgs : self = <<Instance(a)>>
    /\ \/ \E b \in EqArgs : other = <<TilesObject(Instance(b), NewGenerator)>>
       \/ other = <<IntObject>>
    /\ gen = NewGenerator
    /\ emitted = <<>>
    /\ disk = [dirs |-> {Path("out")}, plain |-> {Path("afile")}, files |-> {}]
    /\ last = [op |-> "init", err |-> "none"]
    /\ zoomProps = NoZoom
    /\ nonfinite = 0

\* next(other.tiles)
PullOther ==
    /\ other[1].cls = "Tiles"
    /\ LET r == _tile(other[1].obj, other[1].gen)
       IN  /\ other' = <<[other[1] EXCEPT !.gen = r.gen]>>
           /\ last' = [op |-> "next_other",
                       err |-> IF r.out = <<>> THEN "StopIteration" ELSE "none"]
    /\ UNCHANGED <<self, gen, emitted, disk, zoomProps, nonfinite>>

\* tiles == other, together with other == tiles and tiles == tiles
Eq ==
    /\ last' = [op |-> "eq",
                result |-> __eq__(self[1], other[1]),
                reverse |-> IF other[1].cls = "Tiles"
                            THEN __eq__(other[1].obj, TilesObject(self[1], gen))
                            ELSE FALSE,
                reflexive |-> __eq__(self[1], TilesObject(self[1], gen))]
    /\ UNCHANGED <<self, gen, emitted, disk, other, zoomProps, nonfinite>>

NextEq == Pull \/ PullOther \/ Eq

SpecEq == InitEq /\ [][NextEq]_vars

-----------------------------------------------------------------------------
(* C3 *)

\* the resampling method an instance was configured with
ResamplingName(obj) == CHOOSE n \in DOMAIN valid_resampling :
                           valid_resampling[n] = Get(obj, "resampling")

\* the four fields of the two instances agree; zooms is the argument as given,
\* a list or a tuple of levels in their order
SameConfiguration(a, b) ==
    /\ profile(Get(a, "img")) = profile(Get(b, "img"))
    /\ Get(a, "zooms").kind = Get(b, "zooms").kind
    /\ Len(Get(a, "zooms").items) = Len(Get(b, "zooms").items)
    /\ \A i \in 1..Len(Get(a, "zooms").items) :
          Get(a, "zooms").items[i].v = Get(b, "zooms").items[i].v
    /\ Get(a, "pixels") = Get(b, "pixels")
    /\ ResamplingName(a) = ResamplingName(b)

\* What __eq__ does decide: two instances compare equal exactly when raster
\* profile, zooms argument (container type, levels and order), pixel size and
\* resampling method all agree; an instance never equals an object that is no
\* Tiles; the comparison is reflexive and symmetric, wherever the two tile
\* streams stand.
C3_Equality ==
    last.op = "eq" =>
        /\ last.reflexive
        /\ other[1].cls # "Tiles" => ~last.result
        /\ other[1].cls = "Tiles" =>
              /\ last.result <=> SameConfiguration(self[1], other[1].obj)
              /\ last.reverse <=> last.result

\* two equal instances over rasters of different content, their streams at
\* different positions
C3_Witness ==
    /\ last.op = "eq"
    /\ last.result
    /\ other[1].cls = "Tiles"
    /\ other[1].gen # gen
    /\ emitted # <<>>
    /\ Get(self[1], "img") # Get(other[1].obj, "img")

\* the levels of a zooms argument, in their order
Levels(obj) == [i \in 1..Len(Get(obj, "zooms").items) |-> Get(obj, "zooms").items[i].v]

\* C3 as stated: instances built from the same raster profile, the same zoom
\* levels, the same pixel size and the same resampling method compare equal.
C3_SameLevelsEqual ==
    (/\ last.op = "eq"
     /\ other[1].cls = "Tiles"
     /\ profile(Get(self[1], "img")) = profile(Get(other[1].obj, "img"))
     /\ Levels(self[1]) = Levels(other[1].obj)
     /\ Get(self[1], "pixels") = Get(other[1].obj, "pixels")
     /\ ResamplingName(self[1]) = ResamplingName(other[1].obj))
    => last.result

-----------------------------------------------------------------------------
(* The planner: one zoom level planned for an image of any footprint, and the *)
(* stream run to its end                                                      *)

\* coordinates near the centre, near the edges of the Mercator extent and far
\* outside it
PlanCoords ==
    {c \in (-Origin - Margin)..(Origin + Margin) :
        Abs(c) <= 2 \/ Abs(Abs(c) - Origin) <= 1 \/ Abs(c) = Origin + Margin}

PlanFootprints ==
    {_Bounds(x1, y1, x2, y2) : x1 \in PlanCoords, y1 \in PlanCoords,
                               x2 \in PlanCoords, y2 \in PlanCoords}

RECURSIVE Drain(_, _, _)
\* list(tiles.tiles): [gen, emitted]
Drain(obj, g, em) ==
    LET r == _tile(obj, g)
    IN  IF r.out = <<>> THEN [gen |-> r.gen, emitted |-> em]
        ELSE Drain(obj, r.gen, em \o r.out)

InitPlan ==
    /\ \E b \in PlanFootprints, z \in 0..MaxZoom :
        /\ b.minx < b.maxx /\ b.miny < b.maxy
        /\ self = <<Instance(<<Dataset(3857, "uint8", 3, b, FALSE), ZoomList("list", <<z>>),
                               Arg("int", SmallPixels), Arg("str", "nearest")>>)>>
    /\ gen = NewGenerator
    /\ emitted = <<>>
    /\ disk = [dirs |-> {Path("out")}, plain |-> {Path("afile")}, files |-> {}]
    /\ last = [op |-> "init", err |-> "none"]
    /\ other = <<>>
    /\ zoomProps = NoZoom
    /\ nonfinite = 0

\* tiles._build_zoom(zoom), for the configured zoom
BuildZoom ==
    /\ zoomProps' = _build_zoom(self[1], ZoomAt(self[1], 1))
    /\ last' = [op |-> "_build_zoom", err |-> "none"]
    /\ UNCHANGED <<self, gen, emitted, disk, other, nonfinite>>

\* list(tiles.tiles)
ListTiles ==
    /\ LET r == Drain(self[1], gen, emitted)
       IN  gen' = r.gen /\ emitted' = r.emitted
    /\ last' = [op |-> "list", err |-> "none"]
    /\ UNCHANGED <<self, disk, other, zoomProps, nonfinite>>

NextPlan == BuildZoom \/ ListTiles

SpecPlan == InitPlan /\ [][NextPlan]_vars

-----------------------------------------------------------------------------
(* C4, C5 *)

Extent == _Bounds(-Origin, -Origin, Origin, Origin)

ImageBounds == Get(self[1], "_img_properties").bounds

Drained == gen.done /\ last.op = "list"

\* C4: at zoom 0 an image whose bounds intersect the Mercator extent is planned
\* as the single index (0, 0), and its stream emits exactly that one tile.
C4_ZoomZeroOneTile ==
    Overlaps(ImageBounds, Extent) =>
        /\ zoomProps.zoom = 0 => zoomProps.tile_indices = << <<0, 0>> >>
        /\ (Drained /\ ZoomAt(self[1], 1) = 0) =>
              /\ Len(emitted) = 1
              /\ emitted[1].column = 0 /\ emitted[1].row = 0

\* the part of C4 the planner keeps: an image that ends before the eastern and
\* southern edges of the extent and does not cross the western or northern one
C4_InsideOneTile ==
    (/\ -Origin <= ImageBounds.minx /\ ImageBounds.maxx < Origin
     /\ -Origin < ImageBounds.miny /\ ImageBounds.maxy <= Origin)
    => /\ zoomProps.zoom = 0 => zoomProps.tile_indices = << <<0, 0>> >>
       /\ (Drained /\ ZoomAt(self[1], 1) = 0) => Len(emitted) = 1

\* four tiles emitted at zoom 0 for an image that covers the extent exactly
C4_FullExtentFourTiles ==
    /\ ImageBounds = Extent
    /\ Drained
    /\ ZoomAt(self[1], 1) = 0
    /\ Len(emitted) = 4

\* C5: an image with no overlap with the Mercator extent is planned as the
\* empty index sequence at every zoom, and its stream emits no tile.
C5_NoOverlapNoTiles ==
    ~Overlaps(ImageBounds, Extent) =>
        /\ zoomProps.zoom >= 0 => zoomProps.tile_indices = <<>>
        /\ Drained => emitted = <<>>

\* an image east of the extent with tiles emitted for it, all outside the grid
C5_TilesOutsideGrid ==
    /\ ImageBounds.minx > Origin
    /\ Drained
    /\ emitted # <<>>
    /\ \A i \in 1..Len(emitted) : emitted[i].column >= 2 ^ emitted[i].zoom

-----------------------------------------------------------------------------
(* C6 *)

\* the index range of a zoom level, as the tile grid planner is specified
GridDims(z) == (2 * Origin) \div (2 ^ z)
StartCol(b, z) == (b.minx + Origin) \div GridDims(z)
EndCol(b, z) == (b.maxx + Origin) \div GridDims(z)
StartRow(b, z) == Abs(b.maxy - Origin) \div GridDims(z)
EndRow(b, z) == Abs(b.miny - Origin) \div GridDims(z)

NCols(b, z) == Max2(0, EndCol(b, z) - StartCol(b, z) + 1)
NRows(b, z) == Max2(0, EndRow(b, z) - StartRow(b, z) + 1)

RECURSIVE TilesBefore(_, _, _)
\* the number of tiles of the zoom levels before position i of levels
TilesBefore(b, levels, i) ==
    IF i <= 1 THEN 0
    ELSE TilesBefore(b, levels, i - 1) + NCols(b, levels[i - 1]) * NRows(b, levels[i - 1])

RECURSIVE StatedBefore(_, _, _)
\* the same with the count of a zoom taken as (end_col - start_col + 1) *
\* (end_row - start_row + 1)
StatedBefore(b, levels, i) ==
    IF i <= 1 THEN 0
    ELSE StatedBefore(b, levels, i - 1)
         + (EndCol(b, levels[i - 1]) - StartCol(b, levels[i - 1]) + 1)
           * (EndRow(b, levels[i - 1]) - StartRow(b, levels[i - 1]) + 1)

\* C6, amended: the n-th tile of the stream belongs to the zoom level, in the
\* configured order, whose block of max(0, end_col - start_col + 1) *
\* max(0, end_row - start_row + 1) tiles holds n, and is the tile of that block's
\* column-major position: rows vary fastest, both ends inclusive, every pair
\* once; the exhausted stream has emitted every block in full.
C6_StreamOrder ==
    self # <<>> =>
        LET b == ImageBounds
            levels == Levels(self[1])
            total == TilesBefore(b, levels, Len(levels) + 1)
        IN  /\ Len(emitted) <= total
            /\ gen.done => Len(emitted) = total
            /\ \A n \in 1..Len(emitted) :
                 \E i \in 1..Len(levels) :
                    LET m == n - TilesBefore(b, levels, i) - 1
                        z == levels[i]
                    IN  /\ 0 <= m /\ m < NCols(b, z) * NRows(b, z)
                        /\ emitted[n].zoom = z
                        /\ emitted[n].column = StartCol(b, z) + (m \div NRows(b, z))
                        /\ emitted[n].row = StartRow(b, z) + (m % NRows(b, z))

\* an exhausted stream over two different zoom levels, with a zoom of at least
\* two columns and two rows
C6_Witness ==
    /\ self # <<>>
    /\ gen.done
    /\ Len(Levels(self[1])) = 2
    /\ emitted # <<>>
    /\ emitted[1].zoom # emitted[Len(emitted)].zoom
    /\ \E n \in 1..Len(emitted) :
          /\ NCols(ImageBounds, emitted[n].zoom) >= 2
          /\ NRows(ImageBounds, emitted[n].zoom) >= 2

\* C6 as stated: the number of tiles emitted for a zoom is
\* (end_col - start_col + 1) * (end_row - start_row + 1), so that the exhausted
\* stream has emitted the sum of these products over the configured zooms.
C6_CountAsStated ==
    (self # <<>> /\ gen.done) =>
        Len(emitted) = StatedBefore(ImageBounds, Levels(self[1]), Len(Levels(self[1])) + 1)

-----------------------------------------------------------------------------
(* C7, C8 *)

\* a write that returned normally and began on a stream nothing had been
\* pulled from
FreshWriteDone == last.op = "write" /\ last.err = "none" /\ last.start = 0

\* the image file a tile is to be found in
FileOf(t) ==
    [path |-> [dir |-> [root |-> last.directory, parts |-> <<t.zoom, t.column>>],
               row |-> t.row,
               ext |-> last.driver.v],
     driver |-> last.driver.v,
     width |-> Get(self[1], "pixels"),
     height |-> Get(self[1], "pixels"),
     count |-> t.data.channels,
     dtype |-> "uint8"]

\* C7: after a successful write over a fresh stream the image files on disk are
\* exactly the files directory/zoom/column/row.driver of the emitted tiles whose
\* alpha channel is not all zero, each of the configured pixel size, 8-bit, with
\* as many bands as the tile has channels.
C7_FilesOfCoveredTiles ==
    FreshWriteDone =>
        /\ gen.done
        /\ disk.files = {FileOf(emitted[n]) :
                            n \in {k \in 1..Len(emitted) : emitted[k].data.alpha # "none"}}

\* a successful write that wrote some tiles and skipped others
C7_Witness ==
    /\ FreshWriteDone
    /\ disk.files # {}
    /\ \E n \in 1..Len(emitted) : emitted[n].data.alpha = "none"
    /\ \E n \in 1..Len(emitted) : emitted[n].data.alpha = "partial"

IsPrefix(p, q) == Len(p) <= Len(q) /\ SubSeq(q, 1, Len(p)) = p

\* C8: a tile whose alpha channel is all zero leaves the disk as it was: the
\* directories under the output directory are those of the files written.
C8_NoDirectoryForSkippedTile ==
    FreshWriteDone =>
        \A d \in disk.dirs :
            d.parts # <<>> =>
                \E f \in disk.files :
                    f.path.dir.root = d.root /\ IsPrefix(d.parts, f.path.dir.parts)

\* a column directory that holds no file, made for tiles that were all skipped
C8_EmptyDirectory ==
    /\ FreshWriteDone
    /\ \E d \in disk.dirs :
          /\ Len(d.parts) = 2
          /\ \A f \in disk.files : f.path.dir # d
          /\ \E n \in 1..Len(emitted) :
                /\ <<emitted[n].zoom, emitted[n].column>> = d.parts
                /\ emitted[n].data.alpha = "none"

-----------------------------------------------------------------------------
(* C9 *)

Rejections == {"TypeError", "AttributeError", "ValueError", "FileNotFoundError"}

\* C9: write raises TypeError for a driver that is no string, ValueError for a
\* driver name other than PNG or JPEG, FileNotFoundError for a directory that
\* does not exist or is no directory, and in each case has pulled no tile and
\* created nothing.
C9_WriteRejectsBadArguments ==
    [][last'.op = "write" =>
         /\ last'.driver.t # "str" => last'.err = "TypeError"
         /\ (last'.driver.t = "str" /\ Upper(last'.driver.v) \notin {"PNG", "JPEG"})
               => last'.err = "ValueError"
         /\ (/\ last'.driver.t = "str" /\ Upper(last'.driver.v) \in {"PNG", "JPEG"}
             /\ Path(last'.directory) \notin disk.dirs)
               => last'.err = "FileNotFoundError"
         /\ last'.err \in Rejections => (gen' = gen /\ emitted' = emitted /\ disk' = disk)
      ]_vars

\* the part of C9 that write keeps: whatever it rejects its arguments with, no
\* tile has been pulled and the disk is as it was
C9_RejectionChangesNothing ==
    [][(last'.op = "write" /\ last'.err \in Rejections)
          => (gen' = gen /\ emitted' = emitted /\ disk' = disk)]_vars

\* a driver given as a Path, rejected with AttributeError
C9_PathDriver ==
    /\ last.op = "write"
    /\ last.driver.t = "Path"
    /\ last.err = "AttributeError"

-----------------------------------------------------------------------------
(* C10 *)

C10_DirectRead ==
    /\ self # <<>>
    /\ emitted # <<>>
    /\ Get(self[1], "_img_is_3857")
    /\ ~emitted[1].data.rescaled
    /\ emitted[1].data.dtype = "uint8"

-----------------------------------------------------------------------------
(* Rescaling: sources that are not 8-bit, on every build.  The statistics   *)
(* of the modelled datasets span a power of two, so that the quotient the   *)
(* code computes in floating point is exact.                                *)

\* what casting NaN or an infinity to an unsigned integer yields: 0 where the
\* conversion gives the "indefinite" value, the largest value where it saturates
NonFiniteCasts == {0, Uint8Size - 1}

Uint16Inner == Dataset(3857, "uint16", 1, Inner, FALSE)
Float32Aligned == Dataset(4326, "float32", 4, Aligned, FALSE)

ScaleImages ==
    {Uint16Inner, Float32Aligned, Flat(Uint16Inner), Flat(Float32Aligned),
     Dataset(3857, "uint16", 3, East, FALSE), Dataset(3857, "uint8", 3, Inner, FALSE)}

ScaleArgs == ScaleImages \X ValidZoomArgs \X {Arg("int", SmallPixels)} \X {Arg("str", "nearest")}

InitScale ==
    /\ self = <<>>
    /\ gen = NewGenerator
    /\ emitted = <<>>
    /\ disk = [dirs |-> {Path("out")}, plain |-> {Path("afile")}, files |-> {}]
    /\ last = [op |-> "start", err |-> "none"]
    /\ other = <<>>
    /\ zoomProps = NoZoom
    /\ nonfinite \in NonFiniteCasts

ConstructScale == ConstructFrom(ScaleArgs)

NextScale == ConstructScale \/ Pull

SpecScale == InitScale /\ [][NextScale]_vars

\* the buffer the extraction branch hands to the rescaler for this tile
Extracted(obj, tile) ==
    IF Get(obj, "_img_is_3857") THEN _read_tile_data(obj, tile.bounds)
    ELSE _reproject_tile_data(obj, tile.bounds)

NotUint8 == self # <<>> /\ Get(self[1], "_img_dtype") # "uint8"

\* the global statistics of the bands being tiled, taken from the dataset
GlobalMax == SeqMax([b \in 1..Get(self[1], "_tile_bands") |-> Get(self[1], "img").statistics[b].max])
GlobalMin == SeqMin([b \in 1..Get(self[1], "_tile_bands") |-> Get(self[1], "img").statistics[b].min])

\* round(x) of the quotient num / den, den > 0, halves to the even neighbour
Round(num, den) ==
    LET q == num \div den
        r == num % den
    IN  IF 2 * r < den \/ (2 * r = den /\ q % 2 = 0) THEN q ELSE q + 1

Clamp(x) == Max2(0, Min2(ScaleTop, x))

\* C11 as stated: for a source that is not 8-bit unsigned (and whose global
\* statistics differ), every non-alpha sample of an emitted tile is
\* round((v - img_min) / (img_max - img_min) * 255) clamped to [0, 255], with
\* img_min and img_max the global statistics computed at construction, and the
\* alpha channel is what the extraction delivered.
C11_RoundedAndClamped ==
    (NotUint8 /\ GlobalMax # GlobalMin) =>
        \A i \in 1..Len(emitted) :
            LET tile == emitted[i]
                raw == Extracted(self[1], tile)
            IN  /\ Get(self[1], "_img_max") = GlobalMax
                /\ Get(self[1], "_img_min") = GlobalMin
                /\ tile.data.alpha = raw.alpha
                /\ DOMAIN tile.data.samples = DOMAIN raw.samples
                /\ tile.data.fill = Clamp(Round((raw.fill - GlobalMin) * ScaleTop,
                                                GlobalMax - GlobalMin))
                /\ \A ch \in DOMAIN raw.samples :
                      /\ DOMAIN tile.data.samples[ch] = DOMAIN raw.samples[ch]
                      /\ \A k \in DOMAIN raw.samples[ch] :
                            tile.data.samples[ch][k] =
                                Clamp(Round((raw.samples[ch][k] - GlobalMin) * ScaleTop,
                                            GlobalMax - GlobalMin))

\* what does hold: the statistics are the global ones fixed at construction,
\* the alpha channel passes through, and each sample is the scaled value with
\* its fraction cut off
C11_Truncated ==
    (NotUint8 /\ GlobalMax # GlobalMin) =>
        \A i \in 1..Len(emitted) :
            LET tile == emitted[i]
                raw == Extracted(self[1], tile)
            IN  /\ Get(self[1], "_img_max") = GlobalMax
                /\ Get(self[1], "_img_min") = GlobalMin
                /\ tile.data.alpha = raw.alpha
                /\ tile.data.fill = ((raw.fill - GlobalMin) * ScaleTop) \div (GlobalMax - GlobalMin)
                /\ \A ch \in DOMAIN raw.samples : \A k \in DOMAIN raw.samples[ch] :
                      LET x == (raw.samples[ch][k] - GlobalMin) * ScaleTop
                      IN  /\ tile.data.samples[ch][k] = x \div (GlobalMax - GlobalMin)
                          /\ tile.data.samples[ch][k] \in 0..ScaleTop

\* a 16-bit source has emitted a covered tile holding a sample scaled to a half
C11_HalfWay ==
    /\ NotUint8 /\ GlobalMax # GlobalMin
    /\ \E i \in 1..Len(emitted) :
          /\ emitted[i].data.alpha # "none"
          /\ \E ch \in DOMAIN emitted[i].data.samples :
                \E k \in DOMAIN emitted[i].data.samples[ch] :
                    emitted[i].data.samples[ch][k] = ScaleTop \div 2

\* C12 as stated: when the source is not 8-bit unsigned and img_max = img_min,
\* no emitted tile was built through a division by zero: its non-alpha samples
\* are 8-bit values obtained without a NaN or infinite intermediate.
C12_NoDivisionByZero ==
    (NotUint8 /\ GlobalMax = GlobalMin) =>
        \A i \in 1..Len(emitted) :
            /\ ~emitted[i].data.nan
            /\ emitted[i].data.fill \in 0..ScaleTop
            /\ \A ch \in DOMAIN emitted[i].data.samples :
                  \A k \in DOMAIN emitted[i].data.samples[ch] :
                      emitted[i].data.samples[ch][k] \in 0..ScaleTop

\* what does hold in the degenerate case: the tile is emitted as uint8, and
\* every sample is whatever the build casts a non-finite value to
C12_BuildDependent ==
    (NotUint8 /\ GlobalMax = GlobalMin) =>
        \A i \in 1..Len(emitted) :
            /\ emitted[i].data.dtype = "uint8"
            /\ emitted[i].data.nan
            /\ emitted[i].data.fill = nonfinite
            /\ \A ch \in DOMAIN emitted[i].data.samples :
                  \A k \in DOMAIN emitted[i].data.samples[ch] :
                      emitted[i].data.samples[ch][k] = nonfinite

\* a degenerate source has emitted a tile on a build whose cast saturates
C12_Saturated ==
    /\ NotUint8 /\ GlobalMax = GlobalMin
    /\ emitted # <<>>
    /\ nonfinite = Uint8Size - 1

-----------------------------------------------------------------------------
(* C13: the stream under pulls and write calls, with zoom levels that     *)
(* repeat and an image the JPEG encoder fails on                           *)

StreamImages ==
    {Dataset(3857, "uint8", 3, Inner, FALSE), Dataset(3857, "uint8", 1, Aligned, FALSE),
     Dataset(3857, "uint8", 3, East, FALSE)}

StreamZooms ==
    {ZoomList("list", q) : q \in UNION {[1..k -> {0, MaxZoom}] : k \in 0..MaxZooms}}

StreamArgs == StreamImages \X StreamZooms \X {Arg("int", SmallPixels)} \X {Arg("str", "nearest")}

ConstructStream == ConstructFrom(StreamArgs)

NextStream == ConstructStream \/ Pull \/ Write

SpecStream == Init /\ [][NextStream]_vars

\* every tile a newly constructed instance of the same configuration yields
Plan(obj) == Drain(obj, NewGenerator, <<>>).emitted

TileIndex(t) == <<t.zoom, t.column, t.row>>

\* C13 as stated: over any sequence of pulls and write calls on one instance,
\* each (zoom, column, row) is emitted at most once in total.
C13_EachIndexOnce ==
    \A i, j \in 1..Len(emitted) :
        TileIndex(emitted[i]) = TileIndex(emitted[j]) => i = j

\* C13, amended: every pull and every write call on an instance only extends
\* what has been emitted, and what has been emitted is always an initial part
\* of the tiles a new instance of the same configuration yields, so that each
\* planned tile is emitted at most once per occurrence of its zoom level in
\* zooms; once all of them have been emitted a further pull ends with
\* StopIteration, and a further pull or write call emits no tile and creates
\* no directory and no file.
C13_ForwardOnly ==
    [][(self # <<>> /\ self' = self) =>
          LET plan == Plan(self[1])
          IN  /\ IsPrefix(emitted, emitted')
              /\ IsPrefix(emitted', plan)
              /\ emitted = plan =>
                    /\ emitted' = emitted
                    /\ disk' = disk
                    /\ last'.op = "next" => last'.err = "StopIteration"
                    /\ last'.op = "write" => last'.err # "RasterioIOError"]_vars

\* a write call that returned normally although it began when every tile had
\* been emitted and files had been written, on an instance whose zoom level
\* is configured twice
C13_Witness ==
    /\ self # <<>>
    /\ last.op = "write" /\ last.err = "none"
    /\ last.start = Len(emitted)
    /\ emitted = Plan(self[1])
    /\ disk.files # {}
    /\ \E i, j \in 1..Len(emitted) :
          i # j /\ TileIndex(emitted[i]) = TileIndex(emitted[j])

-----------------------------------------------------------------------------
(* C14 *)

\* the bounds of grid tile (column, row) of zoom z
GridTile(column, row, z) ==
    _Bounds(-Origin + column * GridDims(z), Origin - row * GridDims(z) - GridDims(z),
            -Origin + column * GridDims(z) + GridDims(z), Origin - row * GridDims(z))

\* two bounds with a point in common
Meets(a, b) ==
    /\ Max2(a.minx, b.minx) <= Min2(a.maxx, b.maxx)
    /\ Max2(a.miny, b.miny) <= Min2(a.maxy, b.maxy)

\* indices are those of the grid of zoom z, each meeting the image, and no
\* grid tile that overlaps the image with positive area is missing from them
CoversImage(indices, z) ==
    /\ \A n \in 1..Len(indices) :
          /\ 0 <= indices[n][1] /\ indices[n][1] <= 2 ^ z - 1
          /\ 0 <= indices[n][2] /\ indices[n][2] <= 2 ^ z - 1
          /\ Meets(GridTile(indices[n][1], indices[n][2], z), ImageBounds)
    /\ \A c, r \in 0..(2 ^ z - 1) :
          Overlaps(GridTile(c, r, z), ImageBounds) => <<c, r>> \in SeqRange(indices)

\* the tiles the stream has emitted carry the bounds of their grid tiles
BuiltOnGrid ==
    \A n \in 1..Len(emitted) :
        emitted[n].bounds = GridTile(emitted[n].column, emitted[n].row, emitted[n].zoom)

EmittedIndices == [n \in 1..Len(emitted) |-> <<emitted[n].column, emitted[n].row>>]

\* C14 as stated: for an image whose bounds lie within the Mercator extent the
\* planned indices, and the tiles built from them, are exactly the grid tiles
\* covering the image: every index lies in 0..2^zoom - 1, the bounds derived
\* for it are those of its grid tile and meet the image, and every grid tile
\* overlapping the image with non-zero area is planned.
C14_PlanCoversImage ==
    Within(ImageBounds, Extent) =>
        /\ zoomProps.zoom >= 0 => CoversImage(zoomProps.tile_indices, zoomProps.zoom)
        /\ Drained => (BuiltOnGrid /\ CoversImage(EmittedIndices, ZoomAt(self[1], 1)))

\* the same for the images that end before the eastern and the southern edge
\* of the extent, where it holds
C14_AwayFromEdges ==
    (Within(ImageBounds, Extent) /\ ImageBounds.maxx < Origin /\ -Origin < ImageBounds.miny) =>
        /\ zoomProps.zoom >= 0 => CoversImage(zoomProps.tile_indices, zoomProps.zoom)
        /\ Drained => (BuiltOnGrid /\ CoversImage(EmittedIndices, ZoomAt(self[1], 1)))

\* an image within the extent and reaching its eastern edge, listed at the
\* deepest zoom with a column beyond the grid
C14_ColumnBeyondGrid ==
    /\ Within(ImageBounds, Extent)
    /\ ImageBounds.maxx = Origin
    /\ Drained
    /\ ZoomAt(self[1], 1) = MaxZoom
    /\ \E n \in 1..Len(emitted) : emitted[n].column = 2 ^ MaxZoom

====
